---- MODULE Spec2Model ----
(***************************************************************************)
(* A model of the note-taking command line of podratz/notebook:            *)
(* notebook/note.py (Note, NoteCLI), its duplicate notebook/notecli.py and *)
(* src/utils.py (editor and directory lookup).                             *)
(*                                                                         *)
(* A Python str is a sequence of atoms whose concatenation is the string:  *)
(* an atom is one character, or one fixed literal of the source.  A value  *)
(* of type "str | None" is a sequence of length at most one: None is <<>>  *)
(* and the string s is <<s>>.  The result of a call is a record: exc is    *)
(* the class of the exception it raised ("" when it returned) and val is   *)
(* what it returned.                                                       *)
(***************************************************************************)
EXTENDS Integers, Sequences, FiniteSets

VARIABLES
    pc,        \* where main stands, or the function called on its own
    args,      \* main: the Namespace parse_args returned (date, name, TITLE, input)
    environ,   \* os.environ
    binding,   \* the utils function the imported name fetch_base_directory stands for
    now,       \* datetime.now(): the day of the month
    filepath,  \* Note.filepath
    prefill,   \* main: the prefill text
    raised,    \* main: the class of the exception that ended it, "" when none
    system,    \* the command lines handed to os.system, in order
    call,      \* the function called on its own, and its arguments
    ret        \* what that function returned or raised

vars == <<pc, args, environ, binding, now, filepath, prefill, raised, system, call, ret>>

(***************************************************************************)
(* Bounds of the model.                                                    *)
(***************************************************************************)
MaxNameLen == 1
MaxComponents == 2
MaxWords == 2
MaxWordLen == 2
MaxDay == 3

(***************************************************************************)
(* Python values.                                                          *)
(***************************************************************************)
None == <<>>

Some(v) == <<v>>

Truthy(o) == o # None /\ o[1] # <<>>

Ok(v) == [exc |-> "", val |-> v]

Raise(e) == [exc |-> e, val |-> <<>>]

StringsUpTo(alphabet, n) == UNION {[1..k -> alphabet] : k \in 0..n}

ListsUpTo(elements, n) == UNION {[1..k -> elements] : k \in 0..n}

(***************************************************************************)
(* str methods and os.path.join, as the source uses them.                  *)
(***************************************************************************)
RECURSIVE Join(_, _)
Join(parts, sep) ==
    IF parts = <<>> THEN <<>>
    ELSE IF Len(parts) = 1 THEN parts[1]
    ELSE parts[1] \o sep \o Join(Tail(parts), sep)

RECURSIVE Split(_, _)
Split(s, c) ==
    IF s = <<>> THEN << <<>> >>
    ELSE LET rest == Split(Tail(s), c)
         IN  IF s[1] = c THEN << <<>> >> \o rest
             ELSE << <<s[1]>> \o rest[1] >> \o Tail(rest)

RECURSIVE LStrip(_, _)
LStrip(s, c) == IF s # <<>> /\ s[1] = c THEN LStrip(Tail(s), c) ELSE s

RECURSIVE RStrip(_, _)
RStrip(s, c) ==
    IF s # <<>> /\ s[Len(s)] = c THEN RStrip(SubSeq(s, 1, Len(s) - 1), c) ELSE s

Strip(s, c) == RStrip(LStrip(s, c), c)

RECURSIVE Repeat(_, _)
Repeat(c, n) == IF n <= 0 THEN <<>> ELSE <<c>> \o Repeat(c, n - 1)

FilterNone(values) == SelectSeq(values, Truthy)

Unwrap(values) == [i \in 1..Len(values) |-> values[i][1]]

\* os.path.join(a, b) on a POSIX platform; a is a "str | None".
os_path_join(a, b) ==
    IF a = None THEN Raise("TypeError")
    ELSE IF b # <<>> /\ b[1] = "/" THEN Ok(b)
    ELSE IF a[1] = <<>> \/ a[1][Len(a[1])] = "/" THEN Ok(a[1] \o b)
    ELSE Ok(a[1] \o <<"/">> \o b)

(***************************************************************************)
(* Note.compose_path                                                       *)
(***************************************************************************)
DefaultFormat == <<"m", "d">>

\* compose_path with the components in reverse order.
compose_path_Reversed(directory, components, format) ==
    IF components = <<>> THEN Raise("ValueError")
    ELSE os_path_join(directory,
             Join([i \in 1..Len(components) |-> components[Len(components) + 1 - i]], <<"_">>)
                 \o <<".">> \o format)

compose_path(directory, components, format) ==
    IF components = <<>> THEN Raise("ValueError")
    ELSE os_path_join(directory, Join(components, <<"_">>) \o <<".">> \o format)

(***************************************************************************)
(* utils: the environment, the editor and the notes directory.             *)
(***************************************************************************)
EnvNames == {"EDITOR", "NOTES", "DAILY_NOTES", "DAILY", "NOTEBOOK"}

getenv(name) == environ[name]

\* utils.fetch_editor: os.environ["EDITOR"], a KeyError when it is unset.
fetch_editor == IF getenv("EDITOR") = None THEN Raise("KeyError") ELSE Ok(getenv("EDITOR")[1])

SupportedEditors == {<<"v", "i">>, <<"v", "i", "m">>, <<"n", "v", "i", "m">>}

VimCommandHead == <<":set filetype=markdown|set path+=**|:exe \"$normal A">>

\* utils.construct_editor_params; an f-string renders a None prefill as "None".
construct_editor_params(editor, prefill_arg) ==
    IF editor \in SupportedEditors
    THEN LET text == IF prefill_arg = None THEN <<"None">> ELSE prefill_arg[1]
             cmd == VimCommandHead \o text \o <<"\"">>
         IN  Ok(<<"-c '">> \o cmd \o <<"'">>)
    ELSE Raise("UnsupportedEditorException")

fetch_directory(date_prefix) ==
    LET var_name == IF date_prefix THEN "DAILY_NOTES" ELSE "NOTES"
    IN  IF Truthy(getenv(var_name)) THEN getenv(var_name)
        ELSE IF Truthy(getenv("NOTES")) THEN getenv("NOTES")
        ELSE None

base_directory(date_prefix) ==
    LET slot == IF date_prefix THEN "DAILY" ELSE "NOTEBOOK"
    IN  getenv(slot)

\* note.py imports the name fetch_base_directory from utils, which defines the
\* two lookups above and none of that name: binding is the one the name stands for.
fetch_base_directory(is_dated_note) ==
    IF binding = "fetch_directory" THEN fetch_directory(is_dated_note)
    ELSE base_directory(is_dated_note)

(***************************************************************************)
(* Date (date.py): a date token is a day offset and a format string.       *)
(***************************************************************************)
DateChoices == {<<"today">>, <<"tomorrow">>, <<"yesterday">>}

Date_offset_in_days(date_choice) ==
    IF date_choice = <<"tomorrow">> THEN 1
    ELSE IF date_choice = <<"yesterday">> THEN -1
    ELSE 0

Date_format_string(date_choice) == <<"%Y-%m-%d">>

Digits == <<"0", "1", "2", "3", "4", "5", "6", "7", "8", "9">>

\* datetime.strftime of a day of one fixed month under "%Y-%m-%d".
strftime(day, format_string) ==
    <<"2026-11-", Digits[(day \div 10) + 1], Digits[(day % 10) + 1]>>

(***************************************************************************)
(* NoteCLI.construct_date_string and NoteCLI.construct_filepath            *)
(***************************************************************************)
construct_date_string(date_choice) ==
    LET date == now + Date_offset_in_days(date_choice)
    IN  strftime(date, Date_format_string(date_choice))

\* construct_filepath without the filter(None, ...) of its components.
construct_filepath_NoFilter(date_choice, name_appendix) ==
    IF date_choice = None /\ name_appendix = None THEN Raise("KeyError")
    ELSE LET date_string == IF Truthy(date_choice)
                            THEN Some(construct_date_string(date_choice[1]))
                            ELSE None
             base == fetch_base_directory(date_string # None)
             present == SelectSeq(<<date_string, name_appendix>>, LAMBDA o : o # None)
         IN  compose_path(base, Unwrap(present), DefaultFormat)

\* construct_filepath with the name put before the date.
construct_filepath_NameFirst(date_choice, name_appendix) ==
    IF date_choice = None /\ name_appendix = None THEN Raise("KeyError")
    ELSE LET date_string == IF Truthy(date_choice)
                            THEN Some(construct_date_string(date_choice[1]))
                            ELSE None
             base == fetch_base_directory(date_string # None)
         IN  compose_path(base, Unwrap(FilterNone(<<name_appendix, date_string>>)),
                          DefaultFormat)

construct_filepath(date_choice, name_appendix) ==
    IF date_choice = None /\ name_appendix = None THEN Raise("KeyError")
    ELSE LET date_string == IF Truthy(date_choice)
                            THEN Some(construct_date_string(date_choice[1]))
                            ELSE None
             is_dated_note == date_string # None
             base == fetch_base_directory(is_dated_note)
             filename_components == Unwrap(FilterNone(<<date_string, name_appendix>>))
         IN  compose_path(base, filename_components, DefaultFormat)

(***************************************************************************)
(* NoteCLI.construct_header, read_contents and construct_md_prefill        *)
(***************************************************************************)
\* format_heading with levels counted from zero.
format_heading_FromZero(level, title) ==
    Repeat("#", level - 1) \o <<" ">> \o Strip(title, " ")

format_heading(level, title) == Repeat("#", level) \o <<" ">> \o Strip(title, " ")

construct_header(title) ==
    LET joined == Join(title, <<" ">>)
        headings == Split(joined, "/")
        prefixed_headings == [k \in 1..Len(headings) |-> format_heading(k, headings[k])]
    IN  Join(prefixed_headings, <<"\n", "\n">>)

\* read_contents without the isatty test.
read_contents_ReadsTerminal(input) == Join(input.lines, <<>>)

\* input is a text stream: whether it is a terminal, and the lines it holds.
read_contents(input) == IF input.isatty THEN <<>> ELSE Join(input.lines, <<>>)

\* title is the TITLE list or None; an empty list and None are both falsy.
construct_md_prefill(title, input) ==
    LET header_part == IF title # None /\ title[1] # <<>>
                       THEN <<construct_header(title[1])>>
                       ELSE <<>>
        body == read_contents(input)
        body_part == IF body # <<>> THEN <<body>> ELSE <<>>
    IN  Join(header_part \o body_part, <<"\n", "\n">>)

(***************************************************************************)
(* Note.open: the command line handed to os.system.                        *)
(***************************************************************************)
DefaultEditor == <<"v", "i">>

\* resolve_editor with the environment consulted before the argument.
resolve_editor_EnvironmentFirst(editor) ==
    IF fetch_editor.exc = "" THEN fetch_editor.val
    ELSE IF Truthy(editor) THEN editor[1]
    ELSE DefaultEditor

resolve_editor(editor) ==
    IF Truthy(editor) THEN editor[1]
    ELSE IF fetch_editor.exc = "KeyError" THEN DefaultEditor
    ELSE fetch_editor.val

\* resolve_editor_params without the except clause's empty parameters.
resolve_editor_params_KeepsFlags(editor, prefill_arg) ==
    <<"-c '">> \o VimCommandHead
        \o (IF prefill_arg = None THEN <<"None">> ELSE prefill_arg[1]) \o <<"\"", "'">>

resolve_editor_params(editor, prefill_arg) ==
    IF construct_editor_params(editor, prefill_arg).exc = "UnsupportedEditorException"
    THEN <<>>
    ELSE construct_editor_params(editor, prefill_arg).val

command_line(editor, editor_params, path) ==
    editor \o <<" ">> \o editor_params \o <<" ">> \o (IF Truthy(path) THEN path[1] ELSE <<>>)

Note_open(path, editor, prefill_arg) ==
    LET program == resolve_editor(editor)
    IN  command_line(program, resolve_editor_params(program, prefill_arg), path)

(***************************************************************************)
(* The inputs the model draws from.                                        *)
(***************************************************************************)
Optional(S) == {None} \cup {Some(v) : v \in S}

DirectoryOf(name) ==
    IF name = "NOTES" THEN <<"n">>
    ELSE IF name = "DAILY_NOTES" THEN <<"d", "n", "/">>
    ELSE IF name = "DAILY" THEN <<"d">>
    ELSE <<"n", "b">>

Editors == {<<>>, <<"v", "i">>, <<"v", "i", "m">>, <<"n", "v", "i", "m">>, <<"n", "a", "n", "o">>}

EditorValues == Optional({<<>>, <<"v", "i">>, <<"n", "a", "n", "o">>})

EnvValues(name) ==
    IF name = "EDITOR" THEN EditorValues
    ELSE {None, Some(<<>>), Some(DirectoryOf(name))}

Environments == {e \in [EnvNames -> UNION {EnvValues(n) : n \in EnvNames}] :
                    \A n \in EnvNames : e[n] \in EnvValues(n)}

Unset == [n \in EnvNames |-> None]

Bindings == {"fetch_directory", "base_directory"}

Names == StringsUpTo({"a", "/"}, MaxNameLen)

Days == 2..MaxDay

Streams == {[isatty |-> TRUE, lines |-> << <<"t">> >>],
            [isatty |-> FALSE, lines |-> <<>>],
            [isatty |-> FALSE, lines |-> << <<"x", "\n">>, <<"y">> >>]}

MainStreams == {st \in Streams : st.lines # <<>>}

MainTitles == {<<>>, << <<"a", "/", "b">> >>}

Idle == [fn |-> "main"]

(***************************************************************************)
(* NoteCLI.main, from the point where parse_args has returned.             *)
(***************************************************************************)
\* the except clause without KeyError.
Caught_EnvironmentErrorOnly == {"OSError"}

Caught == {"KeyError", "OSError"}

Init ==
    /\ pc = "parsed"
    /\ args \in [date : Optional(DateChoices), name : Optional(Names),
                 TITLE : MainTitles, input : MainStreams]
    /\ environ \in Environments
    /\ binding \in Bindings
    /\ now \in Days
    /\ filepath = None
    /\ prefill = <<>>
    /\ raised = ""
    /\ system = <<>>
    /\ call = Idle
    /\ ret = Ok(<<>>)

\* try: filepath = self.construct_filepath(...) except (KeyError, EnvironmentError);
\* note = Note(filepath)
CreateNote ==
    /\ pc = "parsed"
    /\ LET r == construct_filepath(args.date, args.name)
       IN  IF r.exc = "" THEN filepath' = Some(r.val) /\ raised' = raised /\ pc' = "note"
           ELSE IF r.exc \in Caught THEN filepath' = None /\ raised' = raised /\ pc' = "note"
           ELSE filepath' = filepath /\ raised' = r.exc /\ pc' = "raised"
    /\ UNCHANGED <<args, environ, binding, now, prefill, system, call, ret>>

\* prefill = self.construct_md_prefill(args.TITLE, args.input)
ConstructPrefill ==
    /\ pc = "note"
    /\ prefill' = construct_md_prefill(Some(args.TITLE), args.input)
    /\ pc' = "prefilled"
    /\ UNCHANGED <<args, environ, binding, now, filepath, raised, system, call, ret>>

\* note.open(prefill=prefill)
OpenNote ==
    /\ pc = "prefilled"
    /\ system' = Append(system, Note_open(filepath, None, Some(prefill)))
    /\ pc' = "done"
    /\ UNCHANGED <<args, environ, binding, now, filepath, prefill, raised, call, ret>>

Next == CreateNote \/ ConstructPrefill \/ OpenNote

Spec == Init /\ [][Next]_vars

(***************************************************************************)
(* Note.compose_path and NoteCLI.construct_filepath, called on their own.  *)
(***************************************************************************)
Directories == {<<>>, <<"d">>, <<"d", "/">>}

Components == {<<>>, <<"a">>, <<"b">>, <<"/", "c">>}

ComposeCalls == [fn : {"compose_path"}, directory : Directories,
                 components : ListsUpTo(Components, MaxComponents)]

FilepathCalls == [fn : {"construct_filepath"}, date_choice : Optional(DateChoices),
                  name_appendix : Optional(Names)]

DirectoryEnvironments == {e \in Environments : e["EDITOR"] = None}

InitPath ==
    /\ pc = "call"
    /\ \/ call \in ComposeCalls /\ environ = Unset /\ binding = "fetch_directory"
          /\ now = MaxDay
       \/ call \in FilepathCalls /\ environ \in DirectoryEnvironments
          /\ binding \in Bindings /\ now \in Days
    /\ args = [date |-> None, name |-> None, TITLE |-> <<>>,
               input |-> [isatty |-> TRUE, lines |-> <<>>]]
    /\ filepath = None
    /\ prefill = <<>>
    /\ raised = ""
    /\ system = <<>>
    /\ ret = Ok(<<>>)

ComposePathCall ==
    /\ pc = "call"
    /\ call.fn = "compose_path"
    /\ ret' = compose_path(Some(call.directory), call.components, DefaultFormat)
    /\ pc' = "returned"
    /\ UNCHANGED <<args, environ, binding, now, filepath, prefill, raised, system, call>>

ConstructFilepathCall ==
    /\ pc = "call"
    /\ call.fn = "construct_filepath"
    /\ ret' = construct_filepath(call.date_choice, call.name_appendix)
    /\ pc' = "returned"
    /\ UNCHANGED <<args, environ, binding, now, filepath, prefill, raised, system, call>>

NextPath == ComposePathCall \/ ConstructFilepathCall

SpecPath == InitPath /\ [][NextPath]_vars

(***************************************************************************)
(* NoteCLI.construct_header and construct_md_prefill, called on their own. *)
(***************************************************************************)
Words == StringsUpTo({"a", "/", " "}, MaxWordLen)

Titles == ListsUpTo(Words, MaxWords)

HeaderCalls == [fn : {"construct_header"}, title : Titles \ {<<>>}]

PrefillCalls == [fn : {"construct_md_prefill"}, title : Optional(Titles), input : Streams]

InitTemplate ==
    /\ pc = "call"
    /\ call \in HeaderCalls \cup PrefillCalls
    /\ environ = Unset
    /\ binding = "fetch_directory"
    /\ now = MaxDay
    /\ args = [date |-> None, name |-> None, TITLE |-> <<>>,
               input |-> [isatty |-> TRUE, lines |-> <<>>]]
    /\ filepath = None
    /\ prefill = <<>>
    /\ raised = ""
    /\ system = <<>>
    /\ ret = Ok(<<>>)

ConstructHeaderCall ==
    /\ pc = "call"
    /\ call.fn = "construct_header"
    /\ ret' = Ok(construct_header(call.title))
    /\ pc' = "returned"
    /\ UNCHANGED <<args, environ, binding, now, filepath, prefill, raised, system, call>>

ConstructPrefillCall ==
    /\ pc = "call"
    /\ call.fn = "construct_md_prefill"
    /\ ret' = Ok(construct_md_prefill(call.title, call.input))
    /\ pc' = "returned"
    /\ UNCHANGED <<args, environ, binding, now, filepath, prefill, raised, system, call>>

NextTemplate == ConstructHeaderCall \/ ConstructPrefillCall

SpecTemplate == InitTemplate /\ [][NextTemplate]_vars

(***************************************************************************)
(* Note.open, called on its own with any editor and prefill arguments.     *)
(***************************************************************************)
OpenCalls == [fn : {"open"}, editor : Optional(Editors),
              prefill : Optional({<<>>, <<"#", " ", "a">>})]

Filepaths == Optional({<<>>, <<"n", "/", "a", ".", "m", "d">>})

InitOpen ==
    /\ pc = "call"
    /\ call \in OpenCalls
    /\ filepath \in Filepaths
    /\ environ \in {e \in Environments : \A n \in EnvNames \ {"EDITOR"} : e[n] = None}
    /\ binding = "fetch_directory"
    /\ now = MaxDay
    /\ args = [date |-> None, name |-> None, TITLE |-> <<>>,
               input |-> [isatty |-> TRUE, lines |-> <<>>]]
    /\ prefill = <<>>
    /\ raised = ""
    /\ system = <<>>
    /\ ret = Ok(<<>>)

OpenCall ==
    /\ pc = "call"
    /\ call.fn = "open"
    /\ system' = Append(system, Note_open(filepath, call.editor, call.prefill))
    /\ pc' = "returned"
    /\ UNCHANGED <<args, environ, binding, now, filepath, prefill, raised, call, ret>>

NextOpen == OpenCall

SpecOpen == InitOpen /\ [][NextOpen]_vars

(***************************************************************************)
(* Properties.                                                             *)
(***************************************************************************)
Md == <<".", "m", "d">>

Started == pc \in {"note", "prefilled", "done"}

DirectoryUnset == \A n \in EnvNames \ {"EDITOR"} : environ[n] = None

Returned(fn) == pc = "returned" /\ call.fn = fn

\* C1: once the arguments are parsed no error is fatal: main never ends in an
\* unhandled exception, and when it has run the editor was launched exactly once.
C1_NoErrorIsFatal ==
    /\ pc # "raised"
    /\ pc = "done" => Len(system) = 1

C3_UnsetDirectoryFallsBack ==
    ((Truthy(args.date) \/ Truthy(args.name)) /\ DirectoryUnset) =>
        /\ pc # "raised"
        /\ Started => filepath = None

RECURSIVE UnderscoreJoined(_)
UnderscoreJoined(cs) ==
    IF Len(cs) = 1 THEN cs[1]
    ELSE UnderscoreJoined(SubSeq(cs, 1, Len(cs) - 1)) \o <<"_">> \o cs[Len(cs)]

\* C4: for a non-empty list of components compose_path returns the directory
\* joined by the platform's rule with the components, in their order and with
\* "_" between them, followed by ".md"; compose_path("d", [a, b]) is "d/a_b.md".
C4_ComposePathJoinsComponents ==
    (Returned("compose_path") /\ call.components # <<>>) =>
        /\ ret = os_path_join(Some(call.directory), UnderscoreJoined(call.components) \o Md)
        /\ (call.directory = <<"d">> /\ call.components = << <<"a">>, <<"b">> >>) =>
              ret = Ok(<<"d", "/", "a", "_", "b", ".", "m", "d">>)

C4_Witness ==
    /\ Returned("compose_path")
    /\ call.directory = <<"d">>
    /\ call.components = << <<"a">>, <<"b">> >>
    /\ ret.val = <<"d", "/", "a", "_", "b", ".", "m", "d">>

\* C5, as claimed: compose_path fails for [] and for every list whose components
\* are all blank, so it returns no path with an empty file stem.
C5_ComposePathRejectsBlanks ==
    (Returned("compose_path") /\ \A i \in 1..Len(call.components) : call.components[i] = <<>>)
        => ret.exc # ""

\* C5, amended: compose_path fails (ValueError) exactly when the component list
\* is empty and filters nothing; construct_filepath drops the absent and the
\* empty component first, so it fails (KeyError, ValueError) whenever neither a
\* non-empty date nor a non-empty name is given and returns a path only when
\* one of them is.
C5_BlanksFilteredByConstructFilepath ==
    /\ Returned("compose_path") => (ret.exc = "ValueError" <=> call.components = <<>>)
    /\ Returned("compose_path") => (ret.exc = "" <=> call.components # <<>>)
    /\ (Returned("construct_filepath")
           /\ ~Truthy(call.date_choice) /\ ~Truthy(call.name_appendix)) =>
          ret.exc = (IF call.name_appendix = None THEN "KeyError" ELSE "ValueError")
    /\ (Returned("construct_filepath") /\ ret.exc = "") =>
          (Truthy(call.date_choice) \/ Truthy(call.name_appendix))

C5_Witness ==
    /\ Returned("construct_filepath")
    /\ call.date_choice = None
    /\ call.name_appendix = Some(<<>>)
    /\ environ["NOTES"] = Some(<<"n">>)
    /\ ret.exc = "ValueError"

\* C6: with a base directory configured, construct_filepath returns that directory
\* joined with "<date>_<name>.md", "<date>.md" when the name is absent or empty,
\* and "<name>.md" when the date is absent: the date comes first.
C6_FileNameConvention ==
    (Returned("construct_filepath")
        /\ (Truthy(call.date_choice) \/ Truthy(call.name_appendix))
        /\ fetch_base_directory(Truthy(call.date_choice)) # None) =>
        LET date == IF Truthy(call.date_choice)
                    THEN <<"2026-11-", "0", Digits[now + Date_offset_in_days(call.date_choice[1]) + 1]>>
                    ELSE <<>>
            name == IF Truthy(call.name_appendix) THEN call.name_appendix[1] ELSE <<>>
            file == IF date # <<>> /\ name # <<>> THEN date \o <<"_">> \o name \o Md
                    ELSE IF date # <<>> THEN date \o Md
                    ELSE name \o Md
        IN  ret = os_path_join(fetch_base_directory(Truthy(call.date_choice)), file)

C6_Witness ==
    /\ Returned("construct_filepath")
    /\ call.date_choice = Some(<<"tomorrow">>)
    /\ call.name_appendix = Some(<<"a">>)
    /\ binding = "fetch_directory"
    /\ now = 2
    /\ ret = Ok(<<"d", "n", "/", "2026-11-", "0", "3", "_", "a", ".", "m", "d">>)

RECURSIVE Flatten(_)
Flatten(ss) == IF ss = <<>> THEN <<>> ELSE ss[1] \o Flatten(Tail(ss))

\* C7: for a non-empty title construct_header joins the words with spaces, splits
\* at "/" and gives one heading line per segment, in order: line k is k "#"
\* characters, a space and segment k (spaces stripped), so levels start at 1 and
\* rise by one, and one empty line stands between consecutive headings.
C7_HeaderLevelsIncrease ==
    Returned("construct_header") =>
        LET segments == Split(Join(call.title, <<" ">>), "/")
            lines == Split(ret.val, "\n")
        IN  /\ Len(lines) = 2 * Len(segments) - 1
            /\ \A k \in 1..Len(segments) :
                  /\ Len(lines[2 * k - 1]) > k
                  /\ \A i \in 1..k : lines[2 * k - 1][i] = "#"
                  /\ lines[2 * k - 1][k + 1] = " "
                  /\ SubSeq(lines[2 * k - 1], k + 2, Len(lines[2 * k - 1]))
                        = Strip(segments[k], " ")
            /\ \A k \in 1..(Len(segments) - 1) : lines[2 * k] = <<>>

C7_Witness ==
    /\ Returned("construct_header")
    /\ call.title = << <<"a", "/">>, <<"a">> >>
    /\ ret.val = <<"#", " ", "a", "\n", "\n", "#", "#", " ", "a">>

\* C8: construct_md_prefill returns the header alone for a title without body,
\* the body unchanged for a body without title, header, empty line and body for
\* both, and "" for neither; a terminal is not read, so its body is empty.
C8_PrefillCases ==
    Returned("construct_md_prefill") =>
        LET titled == call.title # None /\ call.title[1] # <<>>
            body == IF call.input.isatty THEN <<>> ELSE Flatten(call.input.lines)
        IN  /\ (titled /\ body = <<>>) => ret.val = construct_header(call.title[1])
            /\ (~titled /\ body # <<>>) => ret.val = body
            /\ (titled /\ body # <<>>) =>
                  ret.val = construct_header(call.title[1]) \o <<"\n", "\n">> \o body
            /\ (~titled /\ body = <<>>) => ret.val = <<>>

C8_Witness ==
    /\ Returned("construct_md_prefill")
    /\ call.title = Some(<< <<"a">> >>)
    /\ ~call.input.isatty
    /\ ret.val = <<"#", " ", "a", "\n", "\n", "x", "\n", "y">>

\* The editor Note.open is to run: the argument when one is passed, else EDITOR,
\* else "vi".
EditorToRun ==
    IF Truthy(call.editor) THEN call.editor[1]
    ELSE IF environ["EDITOR"] = None THEN <<"v", "i">>
    ELSE environ["EDITOR"][1]

TargetPath == IF Truthy(filepath) THEN filepath[1] ELSE <<>>

\* C9: an unsupported editor is not fatal: for an editor other than vi, vim and
\* nvim the command is the editor, empty parameters and the target path; for
\* vi, vim and nvim, and only for them, the parameters are -c '...' with the prefill.
C9_UnsupportedEditorGetsNoFlags ==
    Returned("open") =>
        /\ Len(system) = 1
        /\ IF EditorToRun \in {<<"v", "i">>, <<"v", "i", "m">>, <<"n", "v", "i", "m">>}
           THEN system[1] = EditorToRun \o <<" ", "-c '">> \o VimCommandHead
                               \o (IF call.prefill = None THEN <<"None">> ELSE call.prefill[1])
                               \o <<"\"", "'", " ">> \o TargetPath
           ELSE system[1] = EditorToRun \o <<" ", " ">> \o TargetPath

C9_Witness ==
    /\ Returned("open")
    /\ call.editor = Some(<<"n", "a", "n", "o">>)
    /\ call.prefill = Some(<<"#", " ", "a">>)
    /\ filepath = Some(<<"n", "/", "a", ".", "m", "d">>)
    /\ system = << <<"n", "a", "n", "o", " ", " ", "n", "/", "a", ".", "m", "d">> >>

\* C10: resolving the editor never fails: Note.open runs the editor it was passed,
\* else the value of EDITOR, else "vi" when EDITOR is unset, and the command is
\* issued in every case.
C10_EditorResolutionNeverFails ==
    Returned("open") =>
        /\ Len(system) = 1
        /\ Len(system[1]) > Len(EditorToRun)
        /\ SubSeq(system[1], 1, Len(EditorToRun) + 1) = EditorToRun \o <<" ">>

C10_Witness ==
    /\ Returned("open")
    /\ call.editor = None
    /\ environ["EDITOR"] = None
    /\ Len(system) = 1
    /\ SubSeq(system[1], 1, 3) = <<"v", "i", " ">>

====
